---- MODULE Spec2Model ----
(***************************************************************************)
(* Model of meta_yaml.py: the YAML front-matter preprocessor for           *)
(* Python-Markdown (MetaYamlPreprocessor.run) and its registration         *)
(* (MetaYamlExtension.extendMarkdown).                                     *)
(*                                                                         *)
(* Python strings are sequences of one-character strings, so that prefix   *)
(* matching, lower-casing and slicing are computed and not assumed.        *)
(* Python values (what yaml.load can return, and what the Meta slot        *)
(* holds) are records [kind, text, items, entries]:                        *)
(*   kind "null"  None                                                     *)
(*   kind "int"   an integer, its digits in text                           *)
(*   kind "str"   a string, its characters in text                         *)
(*   kind "list"  a list, its elements in items                            *)
(*   kind "map"   a dict in insertion order, its (k, v) pairs in entries   *)
(***************************************************************************)
EXTENDS Integers, Sequences, FiniteSets, TLC

VARIABLES
    Meta,           \* markdown.Meta: [set, val]; set = FALSE: attribute absent
    input,          \* the list passed to the last call of run, as it was passed
    lines,          \* that list object after the call (the value run returns)
    yaml_block,     \* the local yaml_block at the end of the call
    yaml_text,      \* the string handed to yaml.load, <<>> when it was not called
    parsed,         \* [called, ok, val]: whether yaml.load ran, and what it gave
    outcome,        \* "idle" between calls, then "ok" or the exception raised
    MetaBefore,     \* history: markdown.Meta when the last call started
    lastBlock,      \* history: the latest call whose yaml_block was non-empty
    lastStored,     \* history: the latest such call that completed normally
    preprocessors,  \* md.preprocessors: the keys of the host's OrderedDict
    registered      \* "init", "ok", or the exception extendMarkdown raised

vars == <<Meta, input, lines, yaml_block, yaml_text, parsed, outcome,
          MetaBefore, lastBlock, lastStored, preprocessors, registered>>

runVars == <<Meta, input, lines, yaml_block, yaml_text, parsed, outcome,
             MetaBefore, lastBlock, lastStored>>

regVars == <<preprocessors, registered>>

\* ------------------------------------------------------------- bounds

MaxLines == 4

MaxEntries == 2

\* ------------------------------------------------------ python values

PyNone == [kind |-> "null", text |-> <<>>, items |-> <<>>, entries |-> <<>>]

PyInt(digits) == [kind |-> "int", text |-> digits, items |-> <<>>, entries |-> <<>>]

PyStr(chars) == [kind |-> "str", text |-> chars, items |-> <<>>, entries |-> <<>>]

PyList(elems) == [kind |-> "list", text |-> <<>>, items |-> elems, entries |-> <<>>]

PyDict(pairs) == [kind |-> "map", text |-> <<>>, items |-> <<>>, entries |-> pairs]

Absent == [set |-> FALSE, val |-> PyNone]

\* ------------------------------------------------------------ strings

\* the repetition count of both patterns, r'-{3}' and r'(\.{3}|-{3})'
MarkerLen == 3

\* re.match of the pattern c{n}: n copies of c at the start of the line;
\* whatever follows them is not looked at
ReMatchRun(c, n, line) ==
    /\ Len(line) >= n
    /\ \A i \in 1..n : line[i] = c

\* re.match(r'-{3}', line)
IsOpen(line) == ReMatchRun("-", MarkerLen, line)

IsClose_dotsOnly(line) == ReMatchRun(".", MarkerLen, line)

\* re.match(r'(\.{3}|-{3})', line)
IsClose(line) ==
    \/ ReMatchRun(".", MarkerLen, line)
    \/ ReMatchRun("-", MarkerLen, line)

\* "\n".join(yaml_block)
RECURSIVE Join(_)
Join(blk) ==
    IF blk = <<>> THEN <<>>
    ELSE IF Len(blk) = 1 THEN blk[1]
    ELSE blk[1] \o <<"\n">> \o Join(Tail(blk))

\* str.lower on one character (the letters the model's keys use)
LowerChar(c) ==
    CASE c = "T" -> "t"
      [] c = "I" -> "i"
      [] c = "A" -> "a"
      [] OTHER -> c

\* str.lower
Lower(chars) == [i \in DOMAIN chars |-> LowerChar(chars[i])]

\* ---------------------------------------------------- block collection

PutBack_dropped(ls, line) == ls

PutBack_atEnd(ls, line) == Append(ls, line)

\* lines.insert(0, line)
PutBack(ls, line) == <<line>> \o ls

\* the while loop: pop lines off the front until a closing marker was
\* popped or the list is empty; every other line goes to yaml_block
RECURSIVE CollectLoop(_, _)
CollectLoop(ls, blk) ==
    IF ls = <<>> THEN [lines |-> <<>>, yaml_block |-> blk]
    ELSE LET line == Head(ls)
             rest == Tail(ls)
         IN  IF IsClose(line)
             THEN [lines |-> rest, yaml_block |-> blk]
             ELSE CollectLoop(rest, Append(blk, line))

\* line = lines.pop(0) on a non-empty list, then the if / else
Extract(arg) ==
    LET line == Head(arg)
        rest == Tail(arg)
    IN  IF IsOpen(line)
        THEN CollectLoop(rest, <<>>)
        ELSE [lines |-> PutBack(rest, line), yaml_block |-> <<>>]

BlockTruthy_always(blk) == TRUE

\* if yaml_block:
BlockTruthy(blk) == blk # <<>>

\* -------------------------------------------------------- normalisation

\* the index of key k in a dict's pairs, 0 when it is not a key
IndexOfKey(pairs, k) ==
    IF \E i \in DOMAIN pairs : pairs[i].k = k
    THEN CHOOSE i \in DOMAIN pairs : pairs[i].k = k
    ELSE 0

DictSet_keepFirst(pairs, k, v) ==
    IF IndexOfKey(pairs, k) = 0 THEN Append(pairs, [k |-> k, v |-> v]) ELSE pairs

\* d[k] = v while a dict is built: a new key is appended, a key already
\* there keeps its place and gets the new value
DictSet(pairs, k, v) ==
    LET i == IndexOfKey(pairs, k)
    IN  IF i = 0 THEN Append(pairs, [k |-> k, v |-> v])
        ELSE [pairs EXCEPT ![i] = [k |-> k, v |-> v]]

\* whether "for k in meta" can iterate over meta at all
Iterable(meta) == meta.kind \in {"str", "list", "map"}

\* what "for k in meta" yields, in order: the characters of a string, the
\* elements of a list, the keys of a dict
IterOf(meta) ==
    CASE meta.kind = "str" -> [i \in DOMAIN meta.text |-> PyStr(<<meta.text[i]>>)]
      [] meta.kind = "list" -> meta.items
      [] meta.kind = "map" -> [i \in DOMAIN meta.entries |-> meta.entries[i].k]
      [] OTHER -> <<>>

\* { k.lower(): meta[k] for k in meta }, from the i-th key on:
\* k.lower() exists only on strings; meta[k] with a string k exists only
\* on a dict
RECURSIVE LowerKeysLoop(_, _, _, _)
LowerKeysLoop(meta, it, i, acc) ==
    IF i > Len(it) THEN [err |-> "", dict |-> acc]
    ELSE LET k == it[i]
         IN  IF k.kind # "str" THEN [err |-> "AttributeError", dict |-> <<>>]
             ELSE IF meta.kind # "map" THEN [err |-> "TypeError", dict |-> <<>>]
             ELSE LowerKeysLoop(meta, it, i + 1,
                      DictSet(acc, PyStr(Lower(k.text)),
                              meta.entries[IndexOfKey(meta.entries, k)].v))

\* meta = { k.lower(): meta[k] for k in meta }
LowerKeys(meta) ==
    IF ~Iterable(meta) THEN [err |-> "TypeError", dict |-> <<>>]
    ELSE LowerKeysLoop(meta, IterOf(meta), 1, <<>>)

WrapOne_always(v) == PyList(<<v>>)

\* v if isinstance(v, list) else [v]
WrapOne(v) == IF v.kind = "list" THEN v ELSE PyList(<<v>>)

\* meta = { k: v if isinstance(v, list) else [v] for k, v in meta.items() }
WrapValues(pairs) ==
    [i \in DOMAIN pairs |-> [k |-> pairs[i].k, v |-> WrapOne(pairs[i].v)]]

StoreMeta_merge(old, new) ==
    LET base == IF old.set THEN old.val.entries ELSE <<>>
        kept == SelectSeq(base, LAMBDA e : IndexOfKey(new, e.k) = 0)
    IN  [set |-> TRUE, val |-> PyDict(kept \o new)]

\* self.markdown.Meta = meta
StoreMeta(old, new) == [set |-> TRUE, val |-> PyDict(new)]

\* ------------------------------------------------- reference mappings

\* A dict seen as a mapping: the function from each key's text to its value
MappingOf(d) ==
    [t \in {d.entries[i].k.text : i \in DOMAIN d.entries} |->
        d.entries[CHOOSE i \in DOMAIN d.entries : d.entries[i].k.text = t].v]

EmptyMapping == [t \in {} |-> PyNone]

\* The value the normalised mapping is to hold for a parsed value v
Wrapped(v) == IF v.kind = "list" THEN v ELSE PyList(<<v>>)

\* The last entry, in parse order, whose key lower-cases to lk
LastWithLower(es, lk) ==
    CHOOSE j \in DOMAIN es :
        /\ Lower(es[j].k.text) = lk
        /\ \A m \in DOMAIN es : Lower(es[m].k.text) = lk => m <= j

\* The normalised mapping of a parse result, stated entry by entry: each
\* lower-cased key holds the wrapped value of the last entry spelling it
\* (a parse result without entries has the empty mapping)
Normalized(pv) ==
    LET es == pv.entries
    IN  [lk \in {Lower(es[i].k.text) : i \in DOMAIN es} |->
            Wrapped(es[LastWithLower(es, lk)].v)]

\* ------------------------------------------------------------------ run

NotParsed == [called |-> FALSE, ok |-> FALSE, val |-> PyNone]

\* MetaYamlPreprocessor.run(lines) with self.markdown.Meta = meta0, where y
\* is what yaml.load does with the text it is given: [ok, val], ok = FALSE
\* when it raises.  The result names every variable the call leaves behind.
RunCall(arg, y, meta0) ==
    IF arg = <<>>
    THEN \* lines.pop(0) on an empty list
         [lines |-> <<>>, yaml_block |-> <<>>, yaml_text |-> <<>>,
          parsed |-> NotParsed, Meta |-> meta0, outcome |-> "IndexError"]
    ELSE
    LET x == Extract(arg) IN
    IF ~BlockTruthy(x.yaml_block)
    THEN [lines |-> x.lines, yaml_block |-> x.yaml_block, yaml_text |-> <<>>,
          parsed |-> NotParsed, Meta |-> meta0, outcome |-> "ok"]
    ELSE
    LET text == Join(x.yaml_block)
        base == [lines |-> x.lines, yaml_block |-> x.yaml_block,
                 yaml_text |-> text,
                 parsed |-> [called |-> TRUE, ok |-> y.ok, val |-> y.val],
                 Meta |-> meta0, outcome |-> "ok"]
    IN
    IF ~y.ok THEN [base EXCEPT !.outcome = "YAMLError"]
    ELSE
    LET lowered == LowerKeys(y.val) IN
    IF lowered.err # "" THEN [base EXCEPT !.outcome = lowered.err]
    ELSE [base EXCEPT !.Meta = StoreMeta(meta0, WrapValues(lowered.dict))]

\* What yaml.load may do in a call on arg: nothing is asked of it unless
\* the call reaches it
YamlChoices(arg, universe) ==
    IF arg # <<>> /\ BlockTruthy(Extract(arg).yaml_block) THEN universe
    ELSE {[ok |-> FALSE, val |-> PyNone]}

\* One call of run on the list arg.  The history variables record the
\* latest call that collected a block, and the latest that also returned.
run(arg, y) ==
    LET r == RunCall(arg, y, Meta)
        collected == r.yaml_block # <<>>
        returned == r.outcome = "ok"
    IN  /\ outcome = "idle"
        /\ input' = arg
        /\ MetaBefore' = Meta
        /\ lines' = r.lines
        /\ yaml_block' = r.yaml_block
        /\ yaml_text' = r.yaml_text
        /\ parsed' = r.parsed
        /\ Meta' = r.Meta
        /\ outcome' = r.outcome
        /\ lastBlock' =
              IF collected
              THEN [any |-> TRUE, ok |-> returned,
                    map |-> IF returned THEN Normalized(y.val) ELSE EmptyMapping]
              ELSE lastBlock
        /\ lastStored' =
              IF collected /\ returned
              THEN [any |-> TRUE, map |-> Normalized(y.val)]
              ELSE lastStored
        /\ UNCHANGED regVars

\* The call is over: its frame, with the argument and the locals, is gone
\* and the caller has the returned list or the exception.  markdown.Meta
\* stays as the call left it.
leave ==
    /\ outcome # "idle"
    /\ outcome' = "idle"
    /\ input' = <<>>
    /\ lines' = <<>>
    /\ yaml_block' = <<>>
    /\ yaml_text' = <<>>
    /\ parsed' = NotParsed
    /\ MetaBefore' = Meta
    /\ UNCHANGED <<Meta, lastBlock, lastStored>>
    /\ UNCHANGED regVars

\* ------------------------------------------------------------- inputs

SeqsUpTo(S, n) == UNION {[1..m -> S] : m \in 0..n}

\* The lines documents are built from: markers, longer lines that start
\* like a marker, lines that are nearly markers, text and the empty line
LineVocab ==
    { <<"-", "-", "-">>,
      <<"-", "-", "-", "-">>,
      <<"-", "-", "-", " ", "f">>,
      <<".", ".", ".">>,
      <<".", ".", ".", ".">>,
      <<"-", "-">>,
      <<" ", "-", "-", "-">>,
      <<"a", ":", " ", "1">>,
      <<>> }

LineInputs == SeqsUpTo(LineVocab, MaxLines)

YamlError == [ok |-> FALSE, val |-> PyNone]

YamlFew ==
    { YamlError,
      [ok |-> TRUE, val |-> PyDict(<<[k |-> PyStr(<<"a">>), v |-> PyInt(<<"1">>)]>>)] }

\* Documents without front matter, with an empty block, with a block
MetaInputs ==
    { << <<"a">> >>,
      << <<"-", "-", "-">>, <<".", ".", ".">>, <<"a">> >>,
      << <<"-", "-", "-">>, <<"a", ":", " ", "1">>, <<".", ".", ".">>, <<"a">> >> }

\* Keys a YAML mapping can have: strings in several spellings, an integer
KeyVocab ==
    { PyStr(<<"T", "i">>), PyStr(<<"t", "i">>), PyStr(<<"T", "I">>), PyStr(<<"a">>),
      PyInt(<<"1">>) }

\* Values of an entry: null, a scalar, a sequence, a nested mapping
ValueVocab ==
    { PyNone, PyStr(<<"x">>), PyList(<<PyStr(<<"x">>), PyStr(<<"y">>)>>), PyDict(<<>>) }

\* The dicts yaml.load can return: no key twice
YamlMaps ==
    { PyDict(es) : es \in
        { s \in SeqsUpTo([k : KeyVocab, v : ValueVocab], MaxEntries) :
            \A i, j \in DOMAIN s : i # j => s[i].k # s[j].k } }

\* What else it can return: null, a scalar, strings, sequences
YamlNonMaps ==
    { PyNone, PyInt(<<"5">>), PyStr(<<>>), PyStr(<<"a", "b">>),
      PyList(<<>>), PyList(<<PyStr(<<"x">>)>>), PyList(<<PyInt(<<"1">>)>>) }

YamlAll == {YamlError} \cup {[ok |-> TRUE, val |-> v] : v \in YamlMaps \cup YamlNonMaps}

\* --------------------------------------------------------- registration

MetaName == <<"m", "e", "t", "a">>

MetaYamlName == <<"m", "e", "t", "a", "_", "y", "a", "m", "l">>

Location_before == <<"<">> \o MetaName

\* the location argument of md.preprocessors.add: ">meta"
Location == <<">">> \o MetaName

\* OrderedDict.index(key), 0-based; found = FALSE is its ValueError
IndexOf(keys, key) ==
    IF \E i \in DOMAIN keys : keys[i] = key
    THEN [found |-> TRUE, i |-> (CHOOSE i \in DOMAIN keys : keys[i] = key) - 1]
    ELSE [found |-> FALSE, i |-> 0]

\* OrderedDict.index_for_location(location): "_begin" is 0, "_end" is None,
\* "<key" is the index of key and ">key" the index after it; a key that is
\* not there, or any other location, is a ValueError
IndexForLocation(keys, location) ==
    IF location = <<"_", "b", "e", "g", "i", "n">>
    THEN [err |-> FALSE, none |-> FALSE, i |-> 0]
    ELSE IF location = <<"_", "e", "n", "d">>
    THEN [err |-> FALSE, none |-> TRUE, i |-> 0]
    ELSE IF location # <<>> /\ Head(location) \in {"<", ">"}
    THEN LET at == IndexOf(keys, Tail(location))
         IN  IF ~at.found THEN [err |-> TRUE, none |-> FALSE, i |-> 0]
             ELSE IF Head(location) = ">"
             THEN IF at.i >= Len(keys)
                  THEN [err |-> FALSE, none |-> TRUE, i |-> 0]
                  ELSE [err |-> FALSE, none |-> FALSE, i |-> at.i + 1]
             ELSE [err |-> FALSE, none |-> FALSE, i |-> at.i]
    ELSE [err |-> TRUE, none |-> FALSE, i |-> 0]

\* OrderedDict.add(key, value, location): insert at the index, or append
\* when the index is None
OrderedDictAdd(keys, key, location) ==
    LET at == IndexForLocation(keys, location)
    IN  IF at.err THEN [err |-> TRUE, keys |-> keys]
        ELSE IF at.none THEN [err |-> FALSE, keys |-> Append(keys, key)]
        ELSE [err |-> FALSE,
              keys |-> SubSeq(keys, 1, at.i) \o <<key>> \o SubSeq(keys, at.i + 1, Len(keys))]

\* MetaYamlExtension.extendMarkdown(md, md_globals)
extendMarkdown ==
    LET r == OrderedDictAdd(preprocessors, MetaYamlName, Location)
    IN  /\ registered = "init"
        /\ preprocessors' = r.keys
        /\ registered' = IF r.err THEN "ValueError" ELSE "ok"
        /\ UNCHANGED runVars

\* The preprocessors a host can hold when the extension is added: its own
\* normalize_whitespace, html_block and reference steps and, when the host's
\* meta extension was loaded before, meta; in any order, each at most once
HostNames ==
    { <<"n", "o", "r", "m", "a", "l", "i", "z", "e", "_", "w", "h", "i", "t", "e", "s", "p", "a", "c", "e">>,
      <<"h", "t", "m", "l", "_", "b", "l", "o", "c", "k">>,
      <<"r", "e", "f", "e", "r", "e", "n", "c", "e">>,
      MetaName }

HostOrders ==
    { s \in SeqsUpTo(HostNames, Cardinality(HostNames)) :
        \A i, j \in DOMAIN s : i # j => s[i] # s[j] }

HostDefault ==
    << <<"n", "o", "r", "m", "a", "l", "i", "z", "e", "_", "w", "h", "i", "t", "e", "s", "p", "a", "c", "e">>,
       <<"h", "t", "m", "l", "_", "b", "l", "o", "c", "k">>,
       MetaName,
       MetaYamlName,
       <<"r", "e", "f", "e", "r", "e", "n", "c", "e">> >>

\* ------------------------------------------------------- specifications

RunInit ==
    /\ Meta = Absent
    /\ input = <<>>
    /\ lines = <<>>
    /\ yaml_block = <<>>
    /\ yaml_text = <<>>
    /\ parsed = NotParsed
    /\ outcome = "idle"
    /\ MetaBefore = Absent
    /\ lastBlock = [any |-> FALSE, ok |-> FALSE, map |-> EmptyMapping]
    /\ lastStored = [any |-> FALSE, map |-> EmptyMapping]

\* A Markdown instance with the extension registered, before any document
InitRun ==
    /\ RunInit
    /\ preprocessors = HostDefault
    /\ registered = "ok"

\* Calls of run on every document of up to MaxLines lines
NextLines ==
    \/ /\ outcome = "idle"
       /\ \E arg \in LineInputs : \E y \in YamlChoices(arg, YamlFew) : run(arg, y)
    \/ leave

SpecLines == InitRun /\ [][NextLines]_vars

\* Calls of run with every result of yaml.load
NextMeta ==
    \/ /\ outcome = "idle"
       /\ \E arg \in MetaInputs : \E y \in YamlChoices(arg, YamlAll) : run(arg, y)
    \/ leave

SpecMeta == InitRun /\ [][NextMeta]_vars

\* A host, with any of its preprocessors in place, loading the extension
InitReg ==
    /\ RunInit
    /\ preprocessors \in HostOrders
    /\ registered = "init"

NextReg == extendMarkdown

SpecReg == InitReg /\ [][NextReg]_vars

\* --------------------------------------------------------------- claims

\* line starts with the characters p
HasPrefix(line, p) == Len(line) >= Len(p) /\ SubSeq(line, 1, Len(p)) = p

StartsOpen(line) == HasPrefix(line, <<"-", "-", "-">>)

StartsClose(line) ==
    \/ HasPrefix(line, <<".", ".", ".">>)
    \/ HasPrefix(line, <<"-", "-", "-">>)

Called == outcome # "idle"

\* the lines of the argument from index i on
From(i) == SubSeq(input, i, Len(input))

\* the places after the first line where a line starts like a closing marker
ClosePlaces == {i \in 2..Len(input) : StartsClose(input[i])}

FirstClose == CHOOSE c \in ClosePlaces : \A d \in ClosePlaces : c <= d

C2_BlockAndRemainder ==
    (Called /\ input # <<>> /\ StartsOpen(input[1])) =>
        IF ClosePlaces = {}
        THEN yaml_block = From(2) /\ lines = <<>>
        ELSE /\ yaml_block = SubSeq(input, 2, FirstClose - 1)
             /\ lines = From(FirstClose + 1)

\* an opening line longer than the marker, a block, a closing line and a
\* marker-like line that stays in the body
C2_Witness ==
    /\ outcome = "ok"
    /\ Len(input) = 4
    /\ StartsOpen(input[1]) /\ Len(input[1]) > 3
    /\ yaml_block # <<>>
    /\ ClosePlaces # {}
    /\ FirstClose = 3
    /\ StartsClose(input[4])
    /\ lines = <<input[4]>>

\* C4: when the first line starts with three hyphens and no line is
\* collected (the input ends there, or the next line starts like a closing
\* marker), the call returns normally the lines after the closing marker,
\* does not call the parser and leaves markdown.Meta as it was.
C4_EmptyBlockLeavesSlot ==
    (Called /\ input # <<>> /\ StartsOpen(input[1])
        /\ (Len(input) = 1 \/ StartsClose(input[2]))) =>
        /\ outcome = "ok"
        /\ Meta = MetaBefore
        /\ ~parsed.called
        /\ lines = From(3)

\* the opening marker, at once the closing one, then a body; the slot held
\* a mapping before
C4_Witness ==
    /\ outcome = "ok"
    /\ Len(input) >= 3
    /\ StartsOpen(input[1])
    /\ StartsClose(input[2])
    /\ lines = From(3)
    /\ MetaBefore.set

\* C5: a call on the empty list returns normally, returns the empty list
\* and leaves markdown.Meta as it was.
C5_EmptyInputReturns ==
    (Called /\ input = <<>>) =>
        /\ outcome = "ok"
        /\ lines = <<>>
        /\ Meta = MetaBefore

\* C7: whenever the call returns normally, the returned list is the
\* argument from some index on.
C7_ReturnsSuffix ==
    outcome = "ok" => \E i \in 1..(Len(input) + 1) : lines = From(i)

\* a block was taken off the front and a proper, non-empty rest returned
C7_Witness ==
    /\ outcome = "ok"
    /\ yaml_block # <<>>
    /\ lines # <<>>
    /\ Len(lines) < Len(input)

\* the call collected a block and the parser returned a dict
ParsedMapping ==
    /\ Called
    /\ yaml_block # <<>>
    /\ parsed.called /\ parsed.ok
    /\ parsed.val.kind = "map"

ParsedEntries == parsed.val.entries

AllKeysStrings == \A i \in DOMAIN ParsedEntries : ParsedEntries[i].k.kind = "str"

\* the stored dict has only string keys, no key twice, only lists as values
StoredWellFormed ==
    /\ Meta.set
    /\ Meta.val.kind = "map"
    /\ \A n \in DOMAIN Meta.val.entries :
          /\ Meta.val.entries[n].k.kind = "str"
          /\ Meta.val.entries[n].v.kind = "list"
    /\ \A n, m \in DOMAIN Meta.val.entries :
          n # m => Meta.val.entries[n].k # Meta.val.entries[m].k

StoredKeys == {Meta.val.entries[n].k.text : n \in DOMAIN Meta.val.entries}

LoweredKeys == {Lower(ParsedEntries[i].k.text) : i \in DOMAIN ParsedEntries}

C6_NonMappingRaises ==
    (Called /\ yaml_block # <<>> /\ parsed.called
        /\ (~parsed.ok \/ parsed.val.kind # "map")) =>
        outcome # "ok"

PlaceOf(key) ==
    IF \E i \in DOMAIN preprocessors : preprocessors[i] = key
    THEN CHOOSE i \in DOMAIN preprocessors : preprocessors[i] = key
    ELSE 0

====
